---------------------------- MODULE Spec2Model ----------------------------
(***************************************************************************)
(* State-machine model of bot.py: the group moderation handler, the        *)
(* administrator's broadcast dialogue (a ConversationHandler keyed by      *)
(* (chat, user) over a per-user user_data dictionary) and the background   *)
(* broadcast job started through the scheduler.                            *)
(*                                                                         *)
(* Conventions.  A Python string is a sequence of one-character strings.   *)
(* A value that the code only ever tests for truthiness (message.text,     *)
(* groups_list, selected_group) is modelled with the empty sequence for    *)
(* None, which is falsy exactly like None.  A private chat has the id of   *)
(* its user (positive); group chats have negative ids.  SQLite returns the *)
(* rows of "groups" in rowid (= group_id) order and DISTINCT user_id of    *)
(* "users" in primary-key order, so both selects are ascending.            *)
(***************************************************************************)
EXTENDS Integers, Sequences, FiniteSets, TLC

\* ------------------------------------------------------------------ bounds
\* most rows the moderation log may hold before message handling stops
MaxLog == 2
\* most broadcast jobs the scheduler is given
MaxJobs == 1
\* most messages the bot itself sends into groups (warnings)
MaxBotMsgs == 2

\* --------------------------------------------------------------- constants
ADMIN_ID == 1
BROADCAST_TYPE == 0
BROADCAST_MESSAGE == 1
BROADCAST_CONFIRM == 2
\* ConversationHandler.END: the key is absent from the conversations map
END == -1
\* seconds after which a warning is deleted
WarningDelay == 30

OtherUser == ADMIN_ID + 1
UserIds == {ADMIN_ID, OtherUser}
GroupA == 0 - 1
GroupB == 0 - 2
GroupIds == {GroupA, GroupB}
ChatIds == UserIds \cup GroupIds

\* chat.type of the chat with this id
ChatType(c) == IF c > 0 THEN "private" ELSE "supergroup"

\* the (chat, user) pairs from which an update can come
Senders == {<<c, u>> \in ChatIds \X UserIds : ChatType(c) = "private" => c = u}

\* ------------------------------------------------------------------ strings
UpperCase == <<"A","B","C","D","E","F","G","H","I","J","K","L","M",
               "N","O","P","Q","R","S","T","U","V","W","X","Y","Z">>
LowerCase == <<"a","b","c","d","e","f","g","h","i","j","k","l","m",
               "n","o","p","q","r","s","t","u","v","w","x","y","z">>
Digits == <<"0","1","2","3","4","5","6","7","8","9">>

LowerChar(ch) ==
    IF \E i \in DOMAIN UpperCase : UpperCase[i] = ch
    THEN LowerCase[CHOOSE i \in DOMAIN UpperCase : UpperCase[i] = ch]
    ELSE ch

\* str.lower()
Lower(s) == [i \in 1..Len(s) |-> LowerChar(s[i])]

\* word in text
Contains(word, text) ==
    \E i \in 0..(Len(text) - Len(word)) : SubSeq(text, i + 1, i + Len(word)) = word

IsSpace(ch) == ch \in {" ", "\n", "\t"}

\* str.strip()
Strip(s) ==
    LET keep == {i \in 1..Len(s) : ~IsSpace(s[i])}
    IN  IF keep = {} THEN <<>>
        ELSE SubSeq(s, CHOOSE i \in keep : \A j \in keep : i <= j,
                       CHOOSE i \in keep : \A j \in keep : j <= i)

DigitValue(ch) == (CHOOSE i \in DOMAIN Digits : Digits[i] = ch) - 1
IsDigit(ch) == \E i \in DOMAIN Digits : Digits[i] = ch

RECURSIVE DigitsValue(_)
DigitsValue(s) ==
    IF s = <<>> THEN 0
    ELSE 10 * DigitsValue(SubSeq(s, 1, Len(s) - 1)) + DigitValue(s[Len(s)])

\* whether int(s) returns rather than raising ValueError (s already stripped)
IsInt(s) ==
    LET body == IF s # <<>> /\ s[1] \in {"+", "-"} THEN Tail(s) ELSE s
    IN  body # <<>> /\ \A i \in 1..Len(body) : IsDigit(body[i])

\* int(s) for a string that IsInt accepts
ParseInt(s) ==
    IF s[1] = "-" THEN 0 - DigitsValue(Tail(s))
    ELSE IF s[1] = "+" THEN DigitsValue(Tail(s))
    ELSE DigitsValue(s)

\* ----------------------------------------------------------------- messages
NoText == <<>>
TextMessage(t, url) ==
    [kind |-> "text", text |-> t, url |-> url, file_id |-> "", caption |-> NoText]
PhotoMessage(cap) ==
    [kind |-> "photo", text |-> NoText, url |-> FALSE, file_id |-> "photo1", caption |-> cap]
DocumentMessage(cap) ==
    [kind |-> "document", text |-> NoText, url |-> FALSE, file_id |-> "doc1", caption |-> cap]
\* a message that is neither text, photo nor document (a sticker, a voice note)
OtherMessage ==
    [kind |-> "other", text |-> NoText, url |-> FALSE, file_id |-> "", caption |-> NoText]
\* no message object at all
NoMessage ==
    [kind |-> "None", text |-> NoText, url |-> FALSE, file_id |-> "", caption |-> NoText]

\* Filters.text: the message has text
IsTextMessage(m) == m.text # NoText

CONFIRM_WORD == <<"c","o","n","f","i","r","m">>


\* ---------------------------------------------------------------- variables
VARIABLES
    groups,             \* table groups: rows [group_id, group_name]
    users,              \* table users: rows [user_id, group_id, username]
    bot_users,          \* table bot_users: rows [user_id, username]
    deleted_messages,   \* table deleted_messages, in id order
    failed_deliveries,  \* table failed_deliveries, in id order
    banned_words,       \* the global list banned_words
    conv,               \* ConversationHandler.conversations: (chat, user) -> state
    user_data,          \* context.user_data of every user
    jobs,               \* the broadcast jobs given to the scheduler, in order
    job_queue,          \* pending delete_message jobs of the job queue
    bot_messages,       \* warnings the bot sent that are still in their chat
    n_bot_msgs,         \* how many messages the bot has sent into groups
    composer,           \* history: the chat whose running dialogue stored the
                        \* payload now in the administrator's user_data (0: none)
    snapshot,           \* history: per chat, the group list the administrator's
                        \* dialogue showed and has had no valid answer to yet
    scan,               \* the banned-word search in progress: the list object
                        \* its generator iterates and the words it has tried
    last                \* the update or job step handled last, with what it did

vars == <<groups, users, bot_users, deleted_messages, failed_deliveries,
          banned_words, conv, user_data, jobs, job_queue, bot_messages,
          n_bot_msgs, composer, snapshot, scan, last>>

\* ----------------------------------------------------------------- registry
RECURSIVE SortedSeq(_)
\* the integers of S in ascending order
SortedSeq(S) ==
    IF S = {} THEN <<>>
    ELSE LET m == CHOOSE x \in S : \A y \in S : x <= y
         IN  <<m>> \o SortedSeq(S \ {m})

GroupRow(id) == CHOOSE r \in groups : r.group_id = id

\* INSERT OR IGNORE INTO groups
InsertOrIgnoreGroup(tbl, id, name) ==
    IF \E r \in tbl : r.group_id = id THEN tbl
    ELSE tbl \cup {[group_id |-> id, group_name |-> name]}

\* INSERT OR REPLACE INTO users
InsertOrReplaceUser(tbl, uid, gid, name) ==
    {r \in tbl : ~(r.user_id = uid /\ r.group_id = gid)}
        \cup {[user_id |-> uid, group_id |-> gid, username |-> name]}

\* INSERT OR REPLACE INTO bot_users
InsertOrReplaceBotUser(tbl, uid, name) ==
    {r \in tbl : r.user_id # uid} \cup {[user_id |-> uid, username |-> name]}

\* SELECT group_id, group_name FROM groups: rows <<group_id, group_name>>
SelectGroups ==
    LET ids == SortedSeq({r.group_id : r \in groups})
    IN  [i \in 1..Len(ids) |-> <<ids[i], GroupRow(ids[i]).group_name>>]

\* SELECT group_id FROM groups
SelectGroupIds == SortedSeq({r.group_id : r \in groups})

\* SELECT DISTINCT user_id FROM users
SelectDistinctUserIds == SortedSeq({r.user_id : r \in users})

\* SELECT COUNT(DISTINCT user_id) FROM users
CountDistinctUsers == Cardinality({r.user_id : r \in users})

\* SELECT COUNT(*) FROM groups
CountGroups == Cardinality(groups)

\* ------------------------------------------------------------------- inputs
\* user.username as the update carries it ("None": the user has none)
Usernames(u) == IF u = ADMIN_ID THEN {"admin"} ELSE {"bob", "None"}
\* chat.title as the update carries it
Titles(c) == IF c = GroupA THEN {"Alpha", "Alpha2"} ELSE {"Beta"}
\* the lines banned_words.txt may hold when it is read
InitialBannedFile == << <<"B","a","d"," ">> >>
BannedFiles == { InitialBannedFile,
                 << <<"b","a","d">>, <<" ">>, <<"s","p","a","m">> >> }

IsAdminAlways(u) == TRUE
IsAdminNever(u) == FALSE

\* is_admin(update)
is_admin(u) == u = ADMIN_ID

IsPrivateNever(c) == FALSE

\* getattr(chat, "type", "") == "private"
IsPrivate(c) == ChatType(c) = "private"

\* load_banned_words() on a file with these lines
load_banned_words(lines) ==
    LET keep == SelectSeq(lines, LAMBDA w : Strip(w) # <<>>)
    IN  [i \in 1..Len(keep) |-> Lower(Strip(keep[i]))]

\* ------------------------------------------------------------------- ledger
\* what an update did, all effects absent
\* context.user_data of a user outside every dialogue: the four keys absent
EmptyUserData ==
    [broadcast_type |-> "None", broadcast_message |-> NoMessage,
     groups_list |-> <<>>, selected_group |-> <<>>]

\* an update seen at its arrival: state and before are the conversation state
\* and the user_data the handler finds, asked is the group list awaiting an
\* index in that chat
Event(handler, u, c, m) ==
    [handler |-> handler, user |-> u, chat |-> c, msg |-> m,
     state |-> IF <<c, u>> \in DOMAIN conv THEN conv[<<c, u>>] ELSE END,
     before |-> user_data[u],
     asked |-> IF c \in DOMAIN snapshot THEN snapshot[c] ELSE <<>>,
     reply |-> "none", raised |-> FALSE, shown |-> 0 - 1,
     enqueued |-> FALSE, job |-> 0,
     paths |-> 0, delete_calls |-> 0, deleted |-> 0, warned |-> 0,
     scheduled |-> 0, logged |-> 0, reported |-> 0, upserts |-> 0,
     upsert_errors |-> 0, faults |-> 0, enqueue_failures |-> 0,
     failure_notices |-> 0, username |-> "None"]

\* nothing is being reported: the dispatcher and the workers are between steps
Idle ==
    [handler |-> "idle", user |-> ADMIN_ID, chat |-> ADMIN_ID, msg |-> NoMessage,
     state |-> END, before |-> EmptyUserData, asked |-> <<>>,
     reply |-> "none", raised |-> FALSE, shown |-> 0 - 1,
     enqueued |-> FALSE, job |-> 0,
     paths |-> 0, delete_calls |-> 0, deleted |-> 0, warned |-> 0,
     scheduled |-> 0, logged |-> 0, reported |-> 0, upserts |-> 0,
     upsert_errors |-> 0, faults |-> 0, enqueue_failures |-> 0,
     failure_notices |-> 0, username |-> "None"]

\* no banned-word search is in progress
NoScan == [active |-> FALSE, text |-> NoText, list |-> <<>>, seen |-> <<>>,
           hit |-> FALSE]

Init ==
    /\ groups = {}
    /\ users = {}
    /\ bot_users = {}
    /\ deleted_messages = <<>>
    /\ failed_deliveries = <<>>
    /\ banned_words = load_banned_words(InitialBannedFile)
    /\ conv = [k \in Senders |-> END]
    /\ user_data = [u \in UserIds |-> EmptyUserData]
    /\ jobs = <<>>
    /\ job_queue = {}
    /\ bot_messages = {}
    /\ n_bot_msgs = 0
    /\ composer = 0
    /\ snapshot = [c \in ChatIds |-> <<>>]
    /\ scan = NoScan
    /\ last = Idle

\* -------------------------------------------------------------------- start
\* /start: CommandHandler("start", start), in any chat
start(u, c, name) ==
    /\ last = Idle
    /\ \E dbOk \in BOOLEAN :
          bot_users' = IF dbOk THEN InsertOrReplaceBotUser(bot_users, u, name)
                       ELSE bot_users
    /\ last' = [Event("start", u, c, NoMessage) EXCEPT !.reply = "start_message"]
    /\ UNCHANGED <<groups, users, deleted_messages, failed_deliveries,
                   banned_words, conv, user_data, jobs, job_queue,
                   bot_messages, n_bot_msgs, composer, snapshot, scan>>

\* /reload: CommandHandler("reload", reload_banned_words)
reload_banned_words(u) ==
    /\ last = Idle
    /\ IF is_admin(u)
       THEN /\ \E f \in BannedFiles : banned_words' = load_banned_words(f)
            /\ last' = [Event("reload_banned_words", u, u, NoMessage)
                            EXCEPT !.reply = "reloaded"]
       ELSE /\ banned_words' = banned_words
            /\ last' = [Event("reload_banned_words", u, u, NoMessage)
                            EXCEPT !.reply = "admin_only"]
    /\ UNCHANGED <<groups, users, bot_users, deleted_messages, failed_deliveries,
                   conv, user_data, jobs, job_queue, bot_messages, n_bot_msgs,
                   composer, snapshot, scan>>

\* ------------------------------------------------------------------ routing
\* The handler of group 0 that takes a message which is not a command.  The
\* ConversationHandler comes first and takes it when the handler of the
\* (chat, user) state accepts it (BROADCAST_TYPE and BROADCAST_CONFIRM take
\* text only, BROADCAST_MESSAGE takes everything); there are no fallbacks, so
\* anything else goes on to the catch-all message_handler.
Route(u, c, m) ==
    LET st == conv[<<c, u>>]
    IN  IF st = BROADCAST_TYPE /\ IsTextMessage(m) THEN "broadcast_type"
        ELSE IF st = BROADCAST_MESSAGE THEN "broadcast_message"
        ELSE IF st = BROADCAST_CONFIRM /\ IsTextMessage(m) THEN "broadcast_confirm"
        ELSE "message_handler"

\* ---------------------------------------------------------- message_handler
\* One pass through a moderation branch: whether message.delete(), the
\* warning send_message, job_queue.run_once and log_event went through.
NoPath == [ran |-> FALSE, del |-> FALSE, warn |-> FALSE, sched |-> FALSE, log |-> FALSE]

\* The outcomes of a branch that is entered.  The warning is scheduled for
\* deletion only when it was sent; the original message can be deleted only
\* if it is still there.
PathOutcomes(hit, stillThere) ==
    IF ~hit THEN {NoPath}
    ELSE {r \in [ran : {TRUE}, del : BOOLEAN, warn : BOOLEAN,
                 sched : BOOLEAN, log : BOOLEAN] :
              /\ r.sched => r.warn
              /\ r.del => stillThere}

\* message.entities holds an entity of type URL
HasUrlEntity(m) == m.url

\* the search without text.lower()
HasBannedWordExact(m) ==
    /\ m.text # NoText
    /\ \E i \in DOMAIN banned_words : Contains(banned_words[i], m.text)

\* any(word in text.lower() for word in banned_words), guarded by message.text
HasBannedWord(m) ==
    /\ m.text # NoText
    /\ \E i \in DOMAIN banned_words : Contains(banned_words[i], Lower(m.text))

\* message.text or "URL in media"
UrlContent(m) == IF m.text # NoText THEN m.text ELSE <<"URL in media">>

LogRow(c, u, content, reason) ==
    [group_id |-> c, user_id |-> u, content |-> content, reason |-> reason]

\* the warnings of the two branches, numbered as the bot sends them
WarningIds(r1, r2) ==
    LET a == IF r1.warn THEN {n_bot_msgs + 1} ELSE {}
        b == IF r2.warn THEN {n_bot_msgs + Cardinality(a) + 1} ELSE {}
    IN  <<a, b>>

\* MessageHandler(Filters.all & ~Filters.command, message_handler), for the
\* messages the conversation does not take.
message_handler(u, c, m, title, name) ==
    /\ last = Idle
    /\ Route(u, c, m) = "message_handler"
    /\ IF IsPrivate(c) \/ user_data[u].broadcast_type # "None"
       THEN /\ last' = [Event("message_handler", u, c, m) EXCEPT !.username = name]
            /\ UNCHANGED <<groups, users, deleted_messages, job_queue,
                           bot_messages, n_bot_msgs, scan>>
       ELSE \E ok1, ok2 \in BOOLEAN :
            LET urlHit == HasUrlEntity(m) /\ ~is_admin(u)
            IN  \E r1 \in PathOutcomes(urlHit, TRUE) :
                LET \* the URL branch returns unless log_event raised
                    second == ~(r1.ran /\ r1.log)
                    banHit == second /\ HasBannedWord(m) /\ ~is_admin(u)
                IN  \E r2 \in PathOutcomes(banHit, ~r1.del) :
                    LET ids == WarningIds(r1, r2)
                        sent == ids[1] \cup ids[2]
                        sched == (IF r1.sched THEN ids[1] ELSE {})
                                     \cup (IF r2.sched THEN ids[2] ELSE {})
                        rows == (IF r1.ran /\ r1.log
                                 THEN <<LogRow(c, u, UrlContent(m), "URL")>> ELSE <<>>)
                                \o (IF r2.ran /\ r2.log
                                    THEN <<LogRow(c, u, m.text, "Banned word")>> ELSE <<>>)
                        B(x) == IF x THEN 1 ELSE 0
                    IN  /\ (r1.ran \/ r2.ran) =>
                               /\ Len(deleted_messages) < MaxLog
                               /\ n_bot_msgs + 2 <= MaxBotMsgs
                        /\ groups' = IF ok1 THEN InsertOrIgnoreGroup(groups, c, title)
                                     ELSE groups
                        /\ users' = IF ok1 /\ ok2
                                    THEN InsertOrReplaceUser(users, u, c, name)
                                    ELSE users
                        /\ deleted_messages' = deleted_messages \o rows
                        /\ n_bot_msgs' = n_bot_msgs + Cardinality(sent)
                        /\ bot_messages' = bot_messages
                               \cup {[chat_id |-> c, message_id |-> i] : i \in sent}
                        /\ job_queue' = job_queue
                               \cup {[chat_id |-> c, message_id |-> i,
                                      when |-> WarningDelay] : i \in sched}
                        /\ last' = [Event("message_handler", u, c, m) EXCEPT
                               !.paths = B(r1.ran) + B(r2.ran),
                               !.delete_calls = B(r1.ran) + B(r2.ran),
                               !.deleted = B(r1.del) + B(r2.del),
                               !.warned = B(r1.warn) + B(r2.warn),
                               !.scheduled = B(r1.sched) + B(r2.sched),
                               !.logged = Len(rows),
                               !.reported = B(r1.ran /\ r1.log) + B(r2.ran /\ r2.log),
                               !.upserts = B(ok1) + B(ok1 /\ ok2),
                               !.upsert_errors = B(~ok1 \/ ~ok2),
                               \* the warning, the scheduling and the log write
                               \* that raised
                               !.faults = B(r1.ran /\ ~r1.warn) + B(r2.ran /\ ~r2.warn)
                                          + B(r1.warn /\ ~r1.sched)
                                          + B(r2.warn /\ ~r2.sched)
                                          + B(r1.ran /\ ~r1.log) + B(r2.ran /\ ~r2.log),
                               \* run_once raised: the except clause only logs
                               \* (failure_notices stays 0)
                               !.enqueue_failures = B(r1.warn /\ ~r1.sched)
                                                    + B(r2.warn /\ ~r2.sched),
                               !.username = name]
    /\ UNCHANGED <<bot_users, failed_deliveries, banned_words, conv, user_data,
                   jobs, composer, snapshot, scan>>

\* welcome_message(update, context): user u joined group c (the message
\* carries new_chat_members).  The conversation takes the update first if
\* (c, u) awaits the broadcast content, so the action is about the others.
\* The welcome is sent and its deletion scheduled; a failure of either is
\* logged and nothing else.
welcome_message(u, c) ==
    /\ last = Idle
    /\ ~IsPrivate(c)
    /\ conv[<<c, u>>] # BROADCAST_MESSAGE
    /\ n_bot_msgs + 1 <= MaxBotMsgs
    /\ \E sent, sched \in BOOLEAN :
          LET id == n_bot_msgs + 1
              B(x) == IF x THEN 1 ELSE 0
          IN  /\ sched => sent
              /\ n_bot_msgs' = IF sent THEN id ELSE n_bot_msgs
              /\ bot_messages' = IF sent
                                 THEN bot_messages \cup {[chat_id |-> c, message_id |-> id]}
                                 ELSE bot_messages
              /\ job_queue' = IF sched
                              THEN job_queue \cup {[chat_id |-> c, message_id |-> id,
                                                    when |-> WarningDelay]}
                              ELSE job_queue
              /\ last' = [Event("welcome_message", u, c, NoMessage) EXCEPT
                              !.warned = B(sent),
                              !.scheduled = B(sched),
                              !.enqueue_failures = B(sent /\ ~sched)]
    /\ UNCHANGED <<groups, users, bot_users, deleted_messages, failed_deliveries,
                   banned_words, conv, user_data, jobs, composer, snapshot, scan>>

\* The banned-word search of message_handler, word by word, for the
\* interleavings with a reload:
\*     any(word in text.lower() for word in banned_words)
\* The generator expression evaluates the global banned_words once, when it
\* is created, and iterates that list object; a reload binds the global to a
\* new list and leaves the old object as it is.
ScanStart(m) ==
    /\ last = Idle
    /\ ~scan.active
    /\ m.text # NoText
    /\ scan' = [active |-> TRUE, text |-> m.text, list |-> banned_words,
                seen |-> <<>>, hit |-> FALSE]
    /\ UNCHANGED <<groups, users, bot_users, deleted_messages, failed_deliveries,
                   banned_words, conv, user_data, jobs, job_queue, bot_messages,
                   n_bot_msgs, composer, snapshot, last>>

\* a search that looks the next word up in the global list
ScanStepGlobal ==
    /\ last = Idle
    /\ scan.active /\ ~scan.hit
    /\ Len(scan.seen) < Len(banned_words)
    /\ LET word == banned_words[Len(scan.seen) + 1]
       IN  scan' = [scan EXCEPT !.seen = Append(@, word),
                                !.hit = Contains(word, Lower(scan.text))]
    /\ UNCHANGED <<groups, users, bot_users, deleted_messages, failed_deliveries,
                   banned_words, conv, user_data, jobs, job_queue, bot_messages,
                   n_bot_msgs, composer, snapshot, last>>

\* the generator yields the test of the next word of its list
ScanStep ==
    /\ last = Idle
    /\ scan.active /\ ~scan.hit
    /\ Len(scan.seen) < Len(scan.list)
    /\ LET word == scan.list[Len(scan.seen) + 1]
       IN  scan' = [scan EXCEPT !.seen = Append(@, word),
                                !.hit = Contains(word, Lower(scan.text))]
    /\ UNCHANGED <<groups, users, bot_users, deleted_messages, failed_deliveries,
                   banned_words, conv, user_data, jobs, job_queue, bot_messages,
                   n_bot_msgs, composer, snapshot, last>>

\* any() returns: a word was found or the list is exhausted
ScanEnd ==
    /\ last = Idle
    /\ scan.active
    /\ scan.hit \/ Len(scan.seen) = Len(scan.list)
    /\ scan' = NoScan
    /\ UNCHANGED <<groups, users, bot_users, deleted_messages, failed_deliveries,
                   banned_words, conv, user_data, jobs, job_queue, bot_messages,
                   n_bot_msgs, composer, snapshot, last>>

\* delete_message(context): a job of the job queue comes due
delete_message(job) ==
    /\ last = Idle
    /\ job \in job_queue
    /\ job_queue' = job_queue \ {job}
    /\ \E ok \in BOOLEAN :
          bot_messages' = IF ok
                          THEN bot_messages \ {[chat_id |-> job.chat_id,
                                                message_id |-> job.message_id]}
                          ELSE bot_messages
    /\ last' = [Event("delete_message", ADMIN_ID, job.chat_id, NoMessage)
                    EXCEPT !.state = END]
    /\ UNCHANGED <<groups, users, bot_users, deleted_messages, failed_deliveries,
                   banned_words, conv, user_data, jobs, n_bot_msgs, composer, snapshot, scan>>

\* ------------------------------------------------------ membership updates
\* The two ChatMemberHandler of main, in the order they are added.  The
\* first is built without a type and so has the default one, MY_CHAT_MEMBER;
\* the second names MY_CHAT_MEMBER.
ChatMemberHandlers ==
    << [callback |-> "track_join_leave", types |-> "MY_CHAT_MEMBER"],
       [callback |-> "track_my_chat_member", types |-> "MY_CHAT_MEMBER"] >>

\* ChatMemberHandler.check_update for an update of kind "my_chat_member" (the
\* bot's own membership changed) or "chat_member" (another member's did)
ChecksUpdate(h, kind) ==
    \/ h.types = "ANY_CHAT_MEMBER"
    \/ h.types = "CHAT_MEMBER" /\ kind = "chat_member"
    \/ h.types = "MY_CHAT_MEMBER" /\ kind = "my_chat_member"

\* the first handler of the group that takes the update, as the dispatcher
\* picks it; none of the other handlers takes an update without a message
RouteMemberUpdate(kind) ==
    LET takers == {i \in DOMAIN ChatMemberHandlers :
                      ChecksUpdate(ChatMemberHandlers[i], kind)}
    IN  IF takers = {} THEN "unhandled"
        ELSE ChatMemberHandlers[CHOOSE i \in takers : \A j \in takers : i <= j].callback

\* track_my_chat_member(update, context): the groups table it leaves when the
\* update says the bot now has this status in chat c
TrackMyChatMemberResult(tbl, c, title, status, ok) ==
    IF status \in {"member", "administrator", "creator"} /\ ok
    THEN InsertOrIgnoreGroup(tbl, c, title)
    ELSE tbl

\* An update about the bot's own membership in group c arrives.  Given to
\* track_join_leave, it has no update.chat_member and the callback returns at
\* once.
my_chat_member(c, title, status) ==
    /\ last = Idle
    /\ LET callback == RouteMemberUpdate("my_chat_member")
       IN  /\ \E ok \in BOOLEAN :
                  groups' = IF callback = "track_my_chat_member"
                            THEN TrackMyChatMemberResult(groups, c, title, status, ok)
                            ELSE groups
           \* the update has no sender of interest; reply reports the status
           /\ last' = [Event(callback, ADMIN_ID, c, NoMessage)
                           EXCEPT !.state = END, !.reply = status]
    /\ UNCHANGED <<users, bot_users, deleted_messages, failed_deliveries,
                   banned_words, conv, user_data, jobs, job_queue, bot_messages,
                   n_bot_msgs, composer, snapshot, scan>>

\* ------------------------------------------------------- broadcast dialogue
\* What a dialogue callback leaves behind: the user's user_data, the state it
\* returns (the state it was called in when it raised), the reply that
\* reached the user, the count that reply shows, and whether it raised.
Outcome(ud, state, reply, shown, raised) ==
    [ud |-> ud, state |-> state, reply |-> reply, shown |-> shown, raised |-> raised]

\* a callback whose execute_db read or whose reply_text raises ends there
Replying(ud, dbOk, replyOk, reply, shown, state, old) ==
    IF ~dbOk \/ ~replyOk THEN Outcome(ud, old, "none", 0 - 1, TRUE)
    ELSE Outcome(ud, state, reply, shown, FALSE)

\* broadcast(update, context): the entry point /broadcast
BroadcastResult(u, ud, replyOk) ==
    IF ~is_admin(u)
    THEN Replying(ud, TRUE, replyOk, "admin_only", 0 - 1, END, END)
    ELSE Replying(ud, TRUE, replyOk, "options", 0 - 1, BROADCAST_TYPE, END)

\* broadcast_type(update, context)
BroadcastTypeResult(ud, m, dbOk, replyOk) ==
    LET choice == Strip(m.text)
        old == BROADCAST_TYPE
    IN  IF choice = <<"1">>
        THEN Replying([ud EXCEPT !.broadcast_type = "all_users"], dbOk, replyOk,
                      "selected", CountDistinctUsers, BROADCAST_MESSAGE, old)
        ELSE IF choice = <<"2">>
        THEN Replying([ud EXCEPT !.broadcast_type = "all_groups"], dbOk, replyOk,
                      "selected", CountGroups, BROADCAST_MESSAGE, old)
        ELSE IF choice = <<"3">>
        THEN LET ud1 == [ud EXCEPT !.broadcast_type = "specific_group"]
             IN  IF ~dbOk THEN Outcome(ud1, old, "none", 0 - 1, TRUE)
                 ELSE IF SelectGroups = <<>>
                 THEN Replying(ud1, TRUE, replyOk, "no_groups", 0 - 1, END, old)
                 \* groups_list is stored after the list was sent
                 ELSE IF ~replyOk THEN Outcome(ud1, old, "none", 0 - 1, TRUE)
                 ELSE Outcome([ud1 EXCEPT !.groups_list = SelectGroups],
                              BROADCAST_MESSAGE, "group_list", Len(SelectGroups), FALSE)
        ELSE Replying(ud, TRUE, replyOk, "invalid_choice", 0 - 1, BROADCAST_TYPE, old)

\* the target_info count of the confirmation prompt
PreviewCount(ud) ==
    IF ud.broadcast_type = "all_users" THEN CountDistinctUsers
    ELSE IF ud.broadcast_type = "all_groups" THEN CountGroups
    ELSE 1

\* whether broadcast_message takes the update as the broadcast content
StoresPayload(ud) ==
    /\ ud.broadcast_type # "None"
    /\ ~(ud.broadcast_type = "specific_group" /\ ud.selected_group = <<>>)

\* broadcast_message(update, context)
BroadcastMessageResult(ud, m, dbOk, replyOk) ==
    LET old == BROADCAST_MESSAGE
    IN  IF ud.broadcast_type = "None"
        THEN Replying(ud, TRUE, replyOk, "no_type", 0 - 1, END, old)
        ELSE IF ud.broadcast_type = "specific_group" /\ ud.selected_group = <<>>
        THEN LET text == Strip(m.text)
             IN  IF ~IsInt(text)
                 THEN Replying(ud, TRUE, replyOk, "not_a_number", 0 - 1, old, old)
                 ELSE LET idx == ParseInt(text) - 1
                      IN  IF 0 <= idx /\ idx < Len(ud.groups_list)
                          THEN Replying([ud EXCEPT !.selected_group =
                                                       ud.groups_list[idx + 1]],
                                        TRUE, replyOk, "group_selected", 0 - 1, old, old)
                          ELSE Replying(ud, TRUE, replyOk, "invalid_number",
                                        0 - 1, old, old)
        ELSE LET ud1 == [ud EXCEPT !.broadcast_message = m]
                 \* only the two counts are read from the database
                 read == ud.broadcast_type # "specific_group"
             IN  Replying(ud1, read => dbOk, replyOk, "confirm_prompt",
                          PreviewCount(ud), BROADCAST_CONFIRM, old)

\* _serialize_message_for_broadcast(msg)
_serialize_message_for_broadcast(msg) ==
    IF msg.kind = "None" THEN [type |-> "None", text |-> NoText, file_id |-> "",
                               caption |-> NoText]
    ELSE IF msg.text # NoText
    THEN [type |-> "text", text |-> msg.text, file_id |-> "", caption |-> NoText]
    ELSE IF msg.kind = "photo"
    THEN [type |-> "photo", text |-> NoText, file_id |-> msg.file_id,
          caption |-> msg.caption]
    ELSE IF msg.kind = "document"
    THEN [type |-> "document", text |-> NoText, file_id |-> msg.file_id,
          caption |-> msg.caption]
    ELSE [type |-> "text", text |-> IF msg.caption # NoText THEN msg.caption ELSE <<" ">>,
          file_id |-> "", caption |-> NoText]

\* the job scheduler.add_job(run_broadcast_job, args=[...]) creates.  Two
\* fields are history: payload_from, the chat of another dialogue, still
\* running, that stored the job's payload (0: none), and orphaned, whether
\* that dialogue was then cancelled
NewJob(btype, msg_data, selected_group_id, admin_id, from) ==
    [btype |-> btype, msg_data |-> msg_data,
     selected_group_id |-> selected_group_id, admin_id |-> admin_id,
     pc |-> "pending", targets |-> <<>>, attempts |-> <<>>,
     success |-> 0, fail |-> 0, failed_targets |-> <<>>, rows |-> 0,
     report |-> "none", rate |-> 0, payload_from |-> from, orphaned |-> FALSE,
     \* the group ids of the registry when the job was enqueued
     known |-> {r.group_id : r \in groups},
     \* the calls of send_message to admin_id that end the run
     terminal |-> 0]

ClearedUserData(ud) == EmptyUserData

\* update.message.text.lower() == 'confirm'
IsConfirm(text) == Lower(text) = CONFIRM_WORD

\* broadcast_confirm(update, context); job: the job it enqueues, if any
BroadcastConfirmResult(u, ud, m, enqOk, replyOk) ==
    LET old == BROADCAST_CONFIRM
        none == <<>>
        With(o, job) == o @@ [job |-> job]
    IN  IF ~IsConfirm(m.text)
        THEN \* the reply comes first, then the four keys are popped
             IF ~replyOk THEN With(Outcome(ud, old, "none", 0 - 1, TRUE), none)
             ELSE With(Outcome(ClearedUserData(ud), END, "canceled", 0 - 1, FALSE), none)
        ELSE IF ud.broadcast_type = "None" \/ ud.broadcast_message.kind = "None"
        THEN With(Replying(ud, TRUE, replyOk, "missing_info", 0 - 1, END, old), none)
        ELSE IF ~enqOk
        THEN With(Replying(ud, TRUE, replyOk, "queue_failed", 0 - 1, END, old), none)
        ELSE LET job == NewJob(ud.broadcast_type,
                               _serialize_message_for_broadcast(ud.broadcast_message),
                               IF ud.selected_group # <<>>
                               THEN ud.selected_group[1] ELSE 0,
                               u, 0)
             IN  IF ~replyOk THEN With(Outcome(ud, old, "none", 0 - 1, TRUE), <<job>>)
                 ELSE With(Outcome(ClearedUserData(ud), END, "queued", 0 - 1, FALSE),
                           <<job>>)

\* the history fields of the jobs once the dialogue of chat c has ended
Forget(js, c, cancelled) ==
    [i \in DOMAIN js |-> IF js[i].payload_from = c
                         THEN [js[i] EXCEPT !.payload_from = 0,
                                            !.orphaned = cancelled]
                         ELSE js[i]]

\* A dialogue callback ran for user u in chat c and left outcome o, having
\* enqueued the jobs new: the conversation state and user_data are stored.
Dialogue(handler, u, c, m, o, new, stored) ==
    LET ended == conv[<<c, u>>] # END /\ o.state = END
        js == jobs \o new
    IN  /\ conv' = [conv EXCEPT ![<<c, u>>] = o.state]
        /\ user_data' = [user_data EXCEPT ![u] = o.ud]
        /\ jobs' = IF ended THEN Forget(js, c, o.reply = "canceled") ELSE js
        /\ composer' = IF stored THEN c
                       ELSE IF o.ud.broadcast_message.kind = "None" THEN 0
                       ELSE IF ended /\ composer = c THEN 0
                       ELSE composer
        /\ snapshot' = [snapshot EXCEPT ![c] =
                            IF o.reply = "group_list" THEN o.ud.groups_list
                            ELSE IF o.state = BROADCAST_MESSAGE
                                    /\ o.ud.selected_group = <<>>
                            THEN @
                            ELSE <<>>]
        /\ last' = [Event(handler, u, c, m) EXCEPT
                        !.reply = o.reply, !.raised = o.raised, !.shown = o.shown,
                        !.enqueued = new # <<>>]
        /\ UNCHANGED <<groups, users, bot_users, deleted_messages,
                       failed_deliveries, banned_words, job_queue,
                       bot_messages, n_bot_msgs, scan>>

\* /broadcast.  It is an entry point, so the ConversationHandler takes it only
\* when (chat, user) has no conversation; otherwise no handler takes it.
broadcast(u, c) ==
    /\ last = Idle
    /\ IF conv[<<c, u>>] = END
       THEN \E replyOk \in BOOLEAN :
               Dialogue("broadcast", u, c, NoMessage,
                        BroadcastResult(u, user_data[u], replyOk), <<>>, FALSE)
       ELSE /\ last' = Event("unhandled", u, c, NoMessage)
            /\ UNCHANGED <<groups, users, bot_users, deleted_messages,
                           failed_deliveries, banned_words, conv, user_data, jobs,
                           job_queue, bot_messages, n_bot_msgs, composer, snapshot, scan>>

broadcast_type(u, c, m) ==
    /\ last = Idle
    /\ Route(u, c, m) = "broadcast_type"
    /\ \E dbOk, replyOk \in BOOLEAN :
          Dialogue("broadcast_type", u, c, m,
                   BroadcastTypeResult(user_data[u], m, dbOk, replyOk), <<>>, FALSE)

broadcast_message(u, c, m) ==
    /\ last = Idle
    /\ Route(u, c, m) = "broadcast_message"
    /\ \E dbOk, replyOk \in BOOLEAN :
          Dialogue("broadcast_message", u, c, m,
                   BroadcastMessageResult(user_data[u], m, dbOk, replyOk), <<>>,
                   StoresPayload(user_data[u]))

broadcast_confirm(u, c, m) ==
    /\ last = Idle
    /\ Route(u, c, m) = "broadcast_confirm"
    /\ \E enqOk, replyOk \in BOOLEAN :
          LET o == BroadcastConfirmResult(u, user_data[u], m, enqOk, replyOk)
              \* history: a payload stored by the dialogue of another chat
              new == [i \in DOMAIN o.job |->
                         [o.job[i] EXCEPT !.payload_from =
                              IF composer # c THEN composer ELSE 0]]
          IN  /\ Len(jobs) + Len(new) <= MaxJobs
              /\ Dialogue("broadcast_confirm", u, c, m,
                          Outcome(o.ud, o.state, o.reply, o.shown, o.raised),
                          new, FALSE)

\* -------------------------------------------------------- run_broadcast_job
\* what _send_serialized can do for one target: return, or raise Unauthorized,
\* TimedOut, another TelegramError, or any other exception
SendOutcomes == {"ok", "Unauthorized", "TimedOut", "BadRequest", "ValueError"}

\* the targets taken from the session data as they are when the job starts
ResolveTargetsFromSession(job) ==
    IF job.btype = "all_users" THEN SelectDistinctUserIds
    ELSE IF job.btype = "all_groups" THEN SelectGroupIds
    ELSE IF user_data[job.admin_id].selected_group # <<>>
    THEN <<user_data[job.admin_id].selected_group[1]>>
    ELSE <<>>

\* the targets taken from what the registry held when the job was enqueued
ResolveTargetsWhenEnqueued(job) ==
    IF job.btype = "all_users" THEN SelectDistinctUserIds
    ELSE IF job.btype = "all_groups" THEN SortedSeq(job.known)
    ELSE IF job.selected_group_id # 0 THEN <<job.selected_group_id>>
    ELSE <<>>

\* targets = ... : the audience as the job resolves it
ResolveTargets(job) ==
    IF job.btype = "all_users" THEN SelectDistinctUserIds
    ELSE IF job.btype = "all_groups" THEN SelectGroupIds
    ELSE IF job.selected_group_id # 0 THEN <<job.selected_group_id>>
    ELSE <<>>

\* the share of the targets that were not reached, in tenths of a percent
FailureRate(success, total) ==
    IF total = 0 THEN 0 ELSE ((total - success) * 2000 + total) \div (2 * total)

\* success / total * 100 as the report prints it with one decimal, in tenths
SuccessRate(success, total) ==
    IF total = 0 THEN 0 ELSE (success * 2000 + total) \div (2 * total)

\* a run that ends in the outer except without telling anyone
CrashedSilently(job) == [job EXCEPT !.pc = "done"]

\* the outer except: the crash notice replaces the report and the run returns
Crashed(job) ==
    [job EXCEPT !.pc = "done", !.report = "crash", !.terminal = @ + 1]

JobEvent(i, step) ==
    [Event("run_broadcast_job", jobs[i].admin_id, jobs[i].admin_id, NoMessage)
        EXCEPT !.state = END, !.job = i, !.reply = step]

\* the scheduler starts job i, which resolves its targets
JobResolve(i) ==
    /\ last = Idle
    /\ jobs[i].pc = "pending"
    /\ \E dbOk \in BOOLEAN :
          LET reads == jobs[i].btype \in {"all_users", "all_groups"}
          IN  jobs' = [jobs EXCEPT ![i] =
                          IF reads /\ ~dbOk THEN Crashed(@)
                          ELSE [@ EXCEPT !.pc = "sending",
                                         !.targets = ResolveTargets(jobs[i])]]
    /\ last' = JobEvent(i, "resolve")
    /\ UNCHANGED <<groups, users, bot_users, deleted_messages, failed_deliveries,
                   banned_words, conv, user_data, job_queue, bot_messages,
                   n_bot_msgs, composer, snapshot, scan>>

\* one turn of the loop over the targets
JobSend(i, out) ==
    /\ last = Idle
    /\ jobs[i].pc = "sending"
    /\ Len(jobs[i].attempts) < Len(jobs[i].targets)
    /\ \E dbOk \in BOOLEAN :
          LET job == jobs[i]
              tgt == job.targets[Len(job.attempts) + 1]
              tried == [job EXCEPT !.attempts = Append(@, tgt)]
              failed == [tried EXCEPT !.fail = @ + 1,
                                      !.failed_targets = Append(@, <<tgt, out>>)]
          IN  IF out = "ok"
              THEN /\ jobs' = [jobs EXCEPT ![i] = [tried EXCEPT !.success = @ + 1]]
                   /\ failed_deliveries' = failed_deliveries
              ELSE IF dbOk
              THEN /\ jobs' = [jobs EXCEPT ![i] = [failed EXCEPT !.rows = @ + 1]]
                   /\ failed_deliveries' = Append(failed_deliveries,
                          [target_id |-> tgt, reason |-> out])
              \* execute_db raises inside the except clause: the outer one ends the run
              ELSE /\ jobs' = [jobs EXCEPT ![i] = Crashed(failed)]
                   /\ failed_deliveries' = failed_deliveries
    /\ last' = JobEvent(i, "send")
    /\ UNCHANGED <<groups, users, bot_users, deleted_messages, banned_words,
                   conv, user_data, job_queue, bot_messages, n_bot_msgs, composer, snapshot, scan>>

\* after the loop: the report to the administrator
JobReport(i) ==
    /\ last = Idle
    /\ jobs[i].pc = "sending"
    /\ Len(jobs[i].attempts) = Len(jobs[i].targets)
    /\ jobs' = [jobs EXCEPT ![i] =
                   [jobs[i] EXCEPT !.pc = "done", !.report = "summary",
                        !.terminal = @ + 1,
                        !.rate = SuccessRate(jobs[i].success, Len(jobs[i].targets))]]
    /\ last' = JobEvent(i, "report")
    /\ UNCHANGED <<groups, users, bot_users, deleted_messages, failed_deliveries,
                   banned_words, conv, user_data, job_queue, bot_messages,
                   n_bot_msgs, composer, snapshot, scan>>

\* The step reported in last has been looked at; the next one may be taken.
\* last only reports: acknowledging changes nothing of the program's state.
Acknowledge ==
    /\ last # Idle
    /\ last' = Idle
    /\ UNCHANGED <<groups, users, bot_users, deleted_messages, failed_deliveries,
                   banned_words, conv, user_data, jobs, job_queue, bot_messages,
                   n_bot_msgs, composer, snapshot, scan>>

\* ----------------------------------------------------------- specifications
Text1 == TextMessage(<<"1">>, FALSE)
Text2 == TextMessage(<<"2">>, FALSE)
Text3 == TextMessage(<<" ", "3">>, FALSE)
TextHi == TextMessage(<<"h","i">>, FALSE)
TextConfirm == TextMessage(<<"c","o","n","f","i","r","m">>, FALSE)
TextConfirmCap == TextMessage(<<"C","o","n","f","i","r","M">>, FALSE)
TextLink == TextMessage(<<"x",".","i","o">>, TRUE)
TextBanned == TextMessage(<<"s","o"," ","B","A","D">>, FALSE)
TextLinkBanned == TextMessage(<<"b","a","d",".","i","o">>, TRUE)
Photo == PhotoMessage(NoText)

AllMessages == {Text1, Text2, Text3, TextHi, TextConfirm, TextConfirmCap,
                TextLink, TextBanned, TextLinkBanned, Photo,
                DocumentMessage(<<"h","i">>), OtherMessage}

\* Every handler and job step, over every sender and message of the model.
Next ==
    \/ \E k \in Senders : \E name \in Usernames(k[2]) : start(k[2], k[1], name)
    \/ \E u \in UserIds : reload_banned_words(u)
    \/ \E k \in Senders : broadcast(k[2], k[1])
    \/ \E k \in Senders, m \in AllMessages : broadcast_type(k[2], k[1], m)
    \/ \E k \in Senders, m \in AllMessages : broadcast_message(k[2], k[1], m)
    \/ \E k \in Senders, m \in AllMessages : broadcast_confirm(k[2], k[1], m)
    \/ \E k \in Senders, m \in AllMessages :
          \E title \in Titles(k[1]), name \in Usernames(k[2]) :
             message_handler(k[2], k[1], m, title, name)
    \/ \E job \in job_queue : delete_message(job)
    \/ \E i \in DOMAIN jobs : JobResolve(i)
    \/ \E i \in DOMAIN jobs, out \in SendOutcomes : JobSend(i, out)
    \/ \E i \in DOMAIN jobs : JobReport(i)
    \/ Acknowledge

Spec == Init /\ [][Next]_vars

\* The broadcast dialogue: the administrator in the private chat and in a
\* group, another user, the group becoming known meanwhile, and the jobs the
\* dialogue enqueues.
DialogueSenders == {<<ADMIN_ID, ADMIN_ID>>, <<GroupA, ADMIN_ID>>,
                    <<OtherUser, OtherUser>>}
DialogueMessages == {Text1, TextConfirm, TextConfirmCap, Photo}

NextDialogue ==
    \/ \E k \in DialogueSenders : Len(jobs) < MaxJobs /\ broadcast(k[2], k[1])
    \/ \E k \in DialogueSenders, m \in DialogueMessages :
          broadcast_type(k[2], k[1], m)
    \/ \E k \in DialogueSenders, m \in DialogueMessages :
          broadcast_message(k[2], k[1], m)
    \/ \E k \in DialogueSenders, m \in DialogueMessages :
          broadcast_confirm(k[2], k[1], m)
    \/ \E k \in DialogueSenders, m \in DialogueMessages :
          message_handler(k[2], k[1], m, "Alpha", "admin")
    \/ \E i \in DOMAIN jobs : JobResolve(i)
    \/ \E i \in DOMAIN jobs, out \in {"ok", "TimedOut"} : JobSend(i, out)
    \/ \E i \in DOMAIN jobs : JobReport(i)
    \/ Acknowledge

SpecDialogue == Init /\ [][NextDialogue]_vars

\* the entry point: /broadcast and what follows it, from the administrator
\* and from another user, each in private and in the same group
EntrySenders == {<<ADMIN_ID, ADMIN_ID>>, <<GroupA, ADMIN_ID>>,
                 <<OtherUser, OtherUser>>, <<GroupA, OtherUser>>}
EntryMessages == {Text1, TextConfirm, Photo}

NextEntry ==
    \/ \E k \in EntrySenders : Len(jobs) < MaxJobs /\ broadcast(k[2], k[1])
    \/ \E k \in EntrySenders, m \in EntryMessages :
          \/ broadcast_type(k[2], k[1], m)
          \/ broadcast_message(k[2], k[1], m)
          \/ broadcast_confirm(k[2], k[1], m)
          \/ message_handler(k[2], k[1], m, "Alpha",
                             IF k[2] = ADMIN_ID THEN "admin" ELSE "bob")
    \/ Acknowledge

SpecEntry == Init /\ [][NextEntry]_vars

\* The broadcast run: users and groups become known, the administrator goes
\* through the dialogue in the private chat, and the job runs.
DispatchMessages == {Text1, Text2, Text3, TextConfirm}
DispatchOutcomes == {"ok", "Unauthorized", "TimedOut"}
GroupSenders == {<<GroupA, OtherUser>>, <<GroupB, OtherUser>>}

NextDispatch ==
    \/ \E u \in UserIds : \E name \in {IF u = ADMIN_ID THEN "admin" ELSE "bob"} :
          start(u, u, name)
    \/ Len(jobs) < MaxJobs /\ broadcast(ADMIN_ID, ADMIN_ID)
    \/ \E m \in DispatchMessages : broadcast_type(ADMIN_ID, ADMIN_ID, m)
    \/ \E m \in DispatchMessages : broadcast_message(ADMIN_ID, ADMIN_ID, m)
    \/ \E m \in DispatchMessages : broadcast_confirm(ADMIN_ID, ADMIN_ID, m)
    \/ \E k \in GroupSenders :
          message_handler(k[2], k[1], TextHi,
                          IF k[1] = GroupA THEN "Alpha" ELSE "Beta", "bob")
    \/ \E i \in DOMAIN jobs : JobResolve(i)
    \/ \E i \in DOMAIN jobs, out \in DispatchOutcomes : JobSend(i, out)
    \/ \E i \in DOMAIN jobs : JobReport(i)
    \/ Acknowledge

SpecDispatch == Init /\ [][NextDispatch]_vars

\* Moderation: messages with and without links and banned words from the
\* administrator and another user, in a group and in private chats, while the
\* word list is reloaded and warnings come due for deletion.
ModerationMessages == {TextHi, TextLink, TextBanned, TextLinkBanned, Photo}
ModerationSenders == {<<GroupA, ADMIN_ID>>, <<GroupA, OtherUser>>,
                      <<OtherUser, OtherUser>>, <<ADMIN_ID, ADMIN_ID>>}

NextModeration ==
    \/ \E u \in UserIds : reload_banned_words(u)
    \/ \E k \in ModerationSenders, m \in ModerationMessages :
          message_handler(k[2], k[1], m, "Alpha",
                          IF k[2] = ADMIN_ID THEN "admin" ELSE "bob")
    \/ \E job \in job_queue : delete_message(job)
    \/ Acknowledge

SpecModeration == Init /\ [][NextModeration]_vars

\* The registry of groups: the bot is added to and removed from groups and
\* members post in them, under one title or another.
RegistrySenders == {<<GroupA, OtherUser>>, <<GroupB, OtherUser>>,
                    <<GroupA, ADMIN_ID>>}
RegistryMessages == {TextHi, TextLink}

NextRegistry ==
    \/ \E c \in GroupIds, status \in {"member", "left"} :
          \E title \in Titles(c) : my_chat_member(c, title, status)
    \/ \E k \in RegistrySenders, m \in RegistryMessages :
          \E title \in Titles(k[1]), name \in Usernames(k[2]) :
             message_handler(k[2], k[1], m, title, name)
    \/ Acknowledge

SpecRegistry == Init /\ [][NextRegistry]_vars

\* The audience of a run to all groups: groups become known before, during
\* and after the dialogue, and the job runs.
AudienceOutcomes == {"ok", "TimedOut"}

NextAudience ==
    \/ Len(jobs) < MaxJobs /\ broadcast(ADMIN_ID, ADMIN_ID)
    \/ broadcast_type(ADMIN_ID, ADMIN_ID, Text2)
    \/ broadcast_message(ADMIN_ID, ADMIN_ID, TextHi)
    \/ broadcast_confirm(ADMIN_ID, ADMIN_ID, TextConfirm)
    \/ \E k \in GroupSenders :
          message_handler(k[2], k[1], TextHi,
                          IF k[1] = GroupA THEN "Alpha" ELSE "Beta", "bob")
    \/ \E i \in DOMAIN jobs : JobResolve(i)
    \/ \E i \in DOMAIN jobs, out \in AudienceOutcomes : JobSend(i, out)
    \/ \E i \in DOMAIN jobs : JobReport(i)
    \/ Acknowledge

SpecAudience == Init /\ [][NextAudience]_vars

\* The runs with the scheduling of the program: groups become known until
\* the first broadcast is confirmed, and a job that was added runs in a thread
\* of the scheduler's pool whatever the dispatcher and the other jobs are
\* doing, so each of its steps is taken in the end.
JobStep(i) ==
    \/ JobResolve(i)
    \/ \E out \in AudienceOutcomes : JobSend(i, out)
    \/ JobReport(i)

NextRun ==
    \/ Len(jobs) < MaxJobs /\ broadcast(ADMIN_ID, ADMIN_ID)
    \/ broadcast_type(ADMIN_ID, ADMIN_ID, Text2)
    \/ broadcast_message(ADMIN_ID, ADMIN_ID, TextHi)
    \/ broadcast_confirm(ADMIN_ID, ADMIN_ID, TextConfirm)
    \/ \E k \in GroupSenders :
          /\ jobs = <<>>
          /\ message_handler(k[2], k[1], TextHi,
                             IF k[1] = GroupA THEN "Alpha" ELSE "Beta", "bob")
    \/ \E i \in DOMAIN jobs : JobResolve(i)
    \/ \E i \in DOMAIN jobs, out \in AudienceOutcomes : JobSend(i, out)
    \/ \E i \in DOMAIN jobs : JobReport(i)
    \/ Acknowledge

FairRun ==
    /\ WF_vars(Acknowledge)
    /\ \A i \in 1..MaxJobs : SF_vars(i \in DOMAIN jobs /\ JobStep(i))

SpecRun == Init /\ [][NextRun]_vars /\ FairRun

\* The enqueues of the program: a link from another user in a group and a
\* user joining it (delayed deletions), and the administrator's dialogue in the
\* private chat up to its confirmation (the broadcast job).
NextEnqueue ==
    \/ message_handler(OtherUser, GroupA, TextLink, "Alpha", "bob")
    \/ welcome_message(OtherUser, GroupA)
    \/ \E job \in job_queue : delete_message(job)
    \/ Len(jobs) < MaxJobs /\ broadcast(ADMIN_ID, ADMIN_ID)
    \/ broadcast_type(ADMIN_ID, ADMIN_ID, Text2)
    \/ broadcast_message(ADMIN_ID, ADMIN_ID, TextHi)
    \/ broadcast_confirm(ADMIN_ID, ADMIN_ID, TextConfirm)
    \/ Acknowledge

SpecEnqueue == Init /\ [][NextEnqueue]_vars

\* Reloads of the word list by either user, interleaved with the searches
\* of moderation checks and with whole checks.
ReloadMessages == {TextHi, TextBanned}

NextReload ==
    \/ \E u \in UserIds : reload_banned_words(u)
    \/ \E m \in ReloadMessages : ScanStart(m)
    \/ ScanStep
    \/ ScanEnd
    \/ \E m \in ReloadMessages : message_handler(OtherUser, GroupA, m, "Alpha", "bob")
    \/ Acknowledge

SpecReload == Init /\ [][NextReload]_vars

\* Opting in: /start from either user in the private chat and in the groups,
\* next to ordinary group messages.
NextOptIn ==
    \/ \E k \in Senders : \E name \in Usernames(k[2]) : start(k[2], k[1], name)
    \/ \E k \in GroupSenders :
          message_handler(k[2], k[1], TextHi,
                          IF k[1] = GroupA THEN "Alpha" ELSE "Beta", "bob")
    \/ Acknowledge

SpecOptIn == Init /\ [][NextOptIn]_vars

\* Sessions after a confirmation: the administrator goes through the
\* dialogue in the private chat again and again, also while a job is pending
\* or running, choosing one of the groups by its number.
LaterMessages == {Text1, Text2}

NextLater ==
    \/ broadcast(ADMIN_ID, ADMIN_ID)
    \/ broadcast_type(ADMIN_ID, ADMIN_ID, Text3)
    \/ \E m \in LaterMessages : broadcast_message(ADMIN_ID, ADMIN_ID, m)
    \/ broadcast_confirm(ADMIN_ID, ADMIN_ID, TextConfirm)
    \/ \E k \in GroupSenders :
          /\ jobs = <<>>
          /\ message_handler(k[2], k[1], TextHi,
                             IF k[1] = GroupA THEN "Alpha" ELSE "Beta", "bob")
    \/ \E i \in DOMAIN jobs : JobResolve(i)
    \/ \E i \in DOMAIN jobs : JobSend(i, "ok")
    \/ \E i \in DOMAIN jobs : JobReport(i)
    \/ Acknowledge

SpecLater == Init /\ [][NextLater]_vars

\* ================================================================= properties
\* the set of the values in a sequence
Range(seq) == {seq[i] : i \in DOMAIN seq}

NoDuplicates(seq) == Cardinality(Range(seq)) = Len(seq)

\* the step reported in last is a run of message_handler that did nothing
NoModeration ==
    /\ last.paths = 0 /\ last.delete_calls = 0 /\ last.deleted = 0
    /\ last.warned = 0 /\ last.scheduled = 0 /\ last.logged = 0
    /\ last.reported = 0

\* ------------------------------------------------------------ dispatcher
\* C1: right after a job with audience "all_users" has resolved its targets,
\* the target list holds exactly the distinct user ids of the opted-in
\* registry (bot_users), each once.
C1_TargetsAreOptedInUsers ==
    (/\ last.handler = "run_broadcast_job"
     /\ last.reply = "resolve"
     /\ jobs[last.job].btype = "all_users"
     /\ jobs[last.job].pc = "sending")
    => /\ Range(jobs[last.job].targets) = {r.user_id : r \in bot_users}
       /\ NoDuplicates(jobs[last.job].targets)

\* C2: a finished run in which a delivery failed has attempted every target
\* and has ended with the summary report, the failed_deliveries insert
\* having succeeded or not.
C2_FailureNeverAbortsRun ==
    \A i \in DOMAIN jobs :
        (jobs[i].pc = "done" /\ jobs[i].fail > 0)
        => /\ jobs[i].attempts = jobs[i].targets
           /\ jobs[i].report = "summary"

\* C3: a finished run to "all_groups" that resolved N group ids has made
\* exactly N attempts, one per group id, and success + fail = N.
C3_AllGroupsExactlyN ==
    \A i \in DOMAIN jobs :
        (jobs[i].btype = "all_groups" /\ jobs[i].pc = "done")
        => /\ jobs[i].attempts = jobs[i].targets
           /\ NoDuplicates(jobs[i].attempts)
           /\ jobs[i].success + jobs[i].fail = Len(jobs[i].targets)

\* ------------------------------------------------------------ moderation
\* C4: a group message that triggers moderation goes through one action
\* path: at most one delete, at most one warning, exactly one report to the
\* administrator.
C4_OneActionPath ==
    (last.handler = "message_handler" /\ last.paths > 0)
    => /\ last.paths = 1
       /\ last.delete_calls <= 1
       /\ last.warned <= 1
       /\ last.reported = 1

\* C5: a message of the administrator is never moderated (no delete, no
\* warning, no log row, no report), and no row of deleted_messages has the
\* administrator as its user_id.
C5_AdminNeverModerated ==
    /\ (last.handler = "message_handler" /\ last.user = ADMIN_ID) => NoModeration
    /\ \A k \in DOMAIN deleted_messages : deleted_messages[k].user_id # ADMIN_ID

\* the administrator posted a link with a banned word in a group, and the
\* handler ran up to the moderation branches
C5_AdminPostedLinkAndBannedWord ==
    /\ last.handler = "message_handler"
    /\ last.user = ADMIN_ID
    /\ last.chat = GroupA
    /\ last.msg = TextLinkBanned
    /\ last.upserts = 2

\* C6: a message in a private chat is never moderated and writes no group
\* row and no membership row for that chat.
C6_PrivateNeverModerated ==
    /\ (last.handler = "message_handler" /\ ChatType(last.chat) = "private")
       => (NoModeration /\ last.upserts = 0)
    /\ \A r \in groups : ChatType(r.group_id) # "private"
    /\ \A r \in users : ChatType(r.group_id) # "private"
    /\ \A k \in DOMAIN deleted_messages :
           ChatType(deleted_messages[k].group_id) # "private"

\* another user sent a link with a banned word to the bot in private
C6_PrivateLinkAndBannedWord ==
    /\ last.handler = "message_handler"
    /\ last.user = OtherUser
    /\ last.chat = OtherUser
    /\ last.msg = TextLinkBanned


\* -------------------------------------------------------------- dialogue
\* the spellings of "confirm", letter case apart, among the inputs
ConfirmTexts == {TextConfirm.text, TextConfirmCap.text}

\* the step reported in last is a message of the administrator to a dialogue
\* that was in BROADCAST_CONFIRM, handled without an exception
InConfirming ==
    /\ last.handler \in {"broadcast_confirm", "message_handler"}
    /\ ~last.raised
    /\ last.user = ADMIN_ID
    /\ last.state = BROADCAST_CONFIRM

\* the dialogue of the chat of the step reported in last
ConvOfLast == conv[<<last.chat, last.user>>]

\* the callback went to dispatch: it enqueued the job, or the scheduler
\* refused the job it was given
Dispatched == last.enqueued \/ last.reply = "queue_failed"

\* C7: in BROADCAST_CONFIRM a message of the administrator dispatches the
\* broadcast iff it is "confirm", letter case apart, and every other message
\* ends the dialogue with the session discarded and nothing enqueued.
C7_ConfirmIffDispatch ==
    InConfirming =>
        /\ Dispatched <=> (last.msg.text \in ConfirmTexts)
        /\ (last.msg.text \notin ConfirmTexts) =>
               /\ ~last.enqueued
               /\ ConvOfLast = END
               /\ user_data[ADMIN_ID] = EmptyUserData

\* C8: the payload of a session that was cancelled in BROADCAST_CONFIRM is
\* never sent to a target: no job that carries it makes a delivery attempt.
C8_CancelledPayloadNeverSent ==
    \A i \in DOMAIN jobs : jobs[i].orphaned => jobs[i].attempts = <<>>

\* C9: /broadcast from a user other than the administrator is answered with
\* the refusal only: that user never has a dialogue, never has a session
\* field, and none of their inputs reaches a dialogue callback or enqueues a
\* job.
C9_NonAdminRejected ==
    /\ \A k \in Senders : k[2] # ADMIN_ID => conv[k] = END
    /\ \A u \in UserIds : u # ADMIN_ID => user_data[u] = EmptyUserData
    /\ \A i \in DOMAIN jobs : jobs[i].admin_id = ADMIN_ID
    /\ (last.user # ADMIN_ID) =>
           /\ ~last.enqueued
           /\ last.handler \notin {"broadcast_type", "broadcast_message",
                                   "broadcast_confirm"}
           /\ last.handler = "broadcast" =>
                  last.reply = (IF last.raised THEN "none" ELSE "admin_only")

\* another user sent /broadcast and got the refusal
C9_NonAdminSentBroadcast ==
    /\ last.handler = "broadcast"
    /\ last.user = OtherUser
    /\ last.reply = "admin_only"

\* C10: the administrator has at most one dialogue in progress, whatever the
\* chats the dialogues were begun in.
C10_OneSessionPerAdmin ==
    Cardinality({k \in Senders : k[2] = ADMIN_ID /\ conv[k] # END}) <= 1


\* ------------------------------------------------------- session lifetime
\* C11: whenever the administrator has no dialogue in progress, none of the
\* four session fields is left in the administrator's user_data, however
\* the dialogue ended.
C11_NoSessionOutsideDialogue ==
    (\A k \in Senders : k[2] = ADMIN_ID => conv[k] = END)
    => user_data[ADMIN_ID] = EmptyUserData


\* the 1-based number a message spells, 0 if it spells none
IndexOf(m) ==
    IF m = Text1 THEN 1 ELSE IF m = Text2 THEN 2 ELSE IF m = Text3 THEN 3 ELSE 0

\* C12: once the group list was shown, an answer k within the list binds
\* selected_group to the k-th row of that list, whatever the registry holds
\* by then; the job enqueued for the session carries that group's id and,
\* when it has run, has made exactly one attempt, to that id.
C12_IndexBindsSnapshot ==
    /\ (/\ last.handler = "broadcast_message"
        /\ last.user = ADMIN_ID
        /\ IndexOf(last.msg) \in 1..Len(last.asked))
       => user_data[ADMIN_ID].selected_group = last.asked[IndexOf(last.msg)]
    /\ (/\ last.enqueued
        /\ last.before.broadcast_type = "specific_group"
        /\ last.before.selected_group # <<>>)
       => jobs[Len(jobs)].selected_group_id = last.before.selected_group[1]
    /\ \A i \in DOMAIN jobs :
           (jobs[i].btype = "specific_group" /\ jobs[i].pc = "done")
           => jobs[i].attempts = <<jobs[i].selected_group_id>>


\* the step reported in last is a message of the administrator, handled
\* without an exception, that is none of the choices 1, 2, 3 and came while
\* the dialogue asked for the audience
InvalidAudienceChoice ==
    /\ last.handler \in {"broadcast_type", "message_handler"}
    /\ last.user = ADMIN_ID
    /\ last.state = BROADCAST_TYPE
    /\ ~last.raised
    /\ IndexOf(last.msg) = 0

\* ... or that is no number of the group list shown and came while the
\* dialogue asked for a group
InvalidGroupNumber ==
    /\ last.handler = "broadcast_message"
    /\ last.user = ADMIN_ID
    /\ last.asked # <<>>
    /\ ~last.raised
    /\ IndexOf(last.msg) \notin 1..Len(last.asked)

\* C13: an invalid answer to the audience question or to the group question
\* is answered with the question again and leaves the dialogue in its state
\* and the session fields as they were.
C13_InvalidInputRetained ==
    /\ InvalidAudienceChoice =>
           /\ last.reply = "invalid_choice"
           /\ ConvOfLast = BROADCAST_TYPE
           /\ user_data[ADMIN_ID] = last.before
    /\ InvalidGroupNumber =>
           /\ last.reply \in {"not_a_number", "invalid_number"}
           /\ ConvOfLast = BROADCAST_MESSAGE
           /\ user_data[ADMIN_ID] = last.before


\* ------------------------------------------------------------ bookkeeping
\* the user of the step reported in last has no dialogue in progress
NoDialogueOfSender ==
    \A k \in Senders : k[2] = last.user => conv[k] = END

\* C14: after message_handler has seen a group message of a user who is in
\* no dialogue, its two writes not failing, the registry holds the row of the
\* group and the row of (sender, group) with the username of that message,
\* whether the message was moderated or not.
C14_GroupMessageBookkept ==
    (/\ last.handler = "message_handler"
     /\ ChatType(last.chat) # "private"
     /\ NoDialogueOfSender
     /\ last.upsert_errors = 0)
    => /\ \E r \in groups : r.group_id = last.chat
       /\ [user_id |-> last.user, group_id |-> last.chat,
           username |-> last.username] \in users


\* the step reported in the next state observes a group: a message in it
\* reached message_handler, its writes not failing, or the bot became a
\* member of it
ObservesGroup ==
    \/ /\ last'.handler = "message_handler"
       /\ ChatType(last'.chat) # "private"
       /\ last'.upsert_errors = 0
    \/ /\ last'.handler \in {"track_join_leave", "track_my_chat_member"}
       /\ last'.reply = "member"

\* C15: every step leaves at most one row per group_id, keeps every row of
\* groups as it is (never removed, display name unchanged), and leaves a row
\* for the group it observed.
C15_OneRowPerObservedGroup ==
    [][/\ \A g \in GroupIds :
              Cardinality({r \in groups' : r.group_id = g}) <= 1
       /\ \A r \in groups : r \in groups'
       /\ ObservesGroup => \E r \in groups' : r.group_id = last'.chat]_vars


\* the step reported by the ledger is message_handler on a group message of
\* someone other than the administrator, without a link entity, whose text
\* holds a word of the list in some letter case
BannedWordCase ==
    /\ last.handler = "message_handler"
    /\ ChatType(last.chat) # "private"
    /\ last.user # ADMIN_ID
    /\ ~last.msg.url
    /\ last.msg.text # NoText
    /\ \E i \in DOMAIN banned_words :
          Contains(Lower(banned_words[i]), Lower(last.msg.text))

\* C16: a group message of a non-administrator with no link and a banned
\* substring in any letter case gets one attempt to delete it and at most one
\* log entry; when no call of the branch fails it gets one warning, one
\* deletion of that warning scheduled after WarningDelay, and exactly one log
\* entry, of reason "Banned word".
C16_BannedWordActs ==
    BannedWordCase =>
        /\ last.paths = 1
        /\ last.delete_calls = 1
        /\ last.warned <= 1
        /\ last.logged <= 1
        /\ last.faults = 0 =>
              /\ last.warned = 1
              /\ last.scheduled = 1
              /\ \E j \in job_queue :
                    /\ j.chat_id = last.chat
                    /\ j.when = WarningDelay
                    /\ [chat_id |-> j.chat_id, message_id |-> j.message_id]
                           \in bot_messages
              /\ last.logged = 1
              /\ Len(deleted_messages) >= 1
              /\ deleted_messages[Len(deleted_messages)]
                     = LogRow(last.chat, last.user, last.msg.text, "Banned word")

\* the text is in capitals, the configured word is not
C16_CapitalsModerated ==
    /\ BannedWordCase
    /\ last.msg = TextBanned
    /\ last.faults = 0
    /\ last.logged = 1
    /\ last.warned = 1


\* C17: when log_event fails in a moderation branch, the report to the
\* administrator is still sent and the message goes through no second
\* branch.
C17_LogFailureLosesOnlyTheWrite ==
    (last.handler = "message_handler" /\ last.logged < last.paths)
    => /\ last.reported >= 1
       /\ last.paths = 1
       /\ last.delete_calls = 1


\* C18: a run to all groups resolves its targets from the registry as it is
\* when the run starts, attempts them in that order, and has attempted all of
\* them when it ends with the summary.
C18_TargetsAtExecutionTime ==
    \A i \in DOMAIN jobs :
        jobs[i].btype = "all_groups" =>
            /\ (/\ last.handler = "run_broadcast_job"
                /\ last.job = i
                /\ last.reply = "resolve"
                /\ jobs[i].pc = "sending")
               => jobs[i].targets = SelectGroupIds
            /\ Len(jobs[i].attempts) <= Len(jobs[i].targets)
            /\ \A k \in DOMAIN jobs[i].attempts :
                  jobs[i].attempts[k] = jobs[i].targets[k]
            /\ (jobs[i].pc = "done" /\ jobs[i].report = "summary")
               => jobs[i].attempts = jobs[i].targets

\* a run to all groups ended after attempting a group that was not in the
\* registry when the broadcast was confirmed (groups are never removed, so
\* the run has more targets than the preview counted)
C18_LateGroupAttempted ==
    \E i \in DOMAIN jobs :
        /\ jobs[i].btype = "all_groups"
        /\ jobs[i].pc = "done"
        /\ jobs[i].report = "summary"
        /\ jobs[i].known # {}
        /\ \E g \in Range(jobs[i].attempts) : g \notin jobs[i].known


\* C19: a run that ended with its summary has appended as many
\* failed_deliveries rows as the failures it reports, reports as successes
\* the attempts that did not fail, and reports the rate success/total*100
\* to one decimal (here in tenths), 0.0 for no targets.
C19_ReportCountsAgree ==
    \A i \in DOMAIN jobs :
        (jobs[i].pc = "done" /\ jobs[i].report = "summary") =>
            LET total == Len(jobs[i].targets)
            IN  /\ jobs[i].rows = jobs[i].fail
                /\ jobs[i].fail = Len(jobs[i].failed_targets)
                /\ Len(failed_deliveries) >= jobs[i].rows
                /\ jobs[i].success = Len(jobs[i].attempts) - Len(jobs[i].failed_targets)
                /\ jobs[i].success + jobs[i].fail = total
                /\ total = 0 => jobs[i].rate = 0
                /\ total > 0 =>
                      /\ 2 * (jobs[i].rate * total - jobs[i].success * 1000) <= total
                      /\ 2 * (jobs[i].success * 1000 - jobs[i].rate * total) <= total

\* a run of two targets, one of which failed, reported 50.0 and one new row
C19_HalfDelivered ==
    \E i \in DOMAIN jobs :
        /\ jobs[i].pc = "done"
        /\ jobs[i].report = "summary"
        /\ Len(jobs[i].targets) = 2
        /\ jobs[i].success = 1
        /\ jobs[i].fail = 1
        /\ jobs[i].rows = 1
        /\ jobs[i].rate = 500


\* a run has ended with one terminal message: the summary after all targets
\* were attempted, or the crash notice
EndedWithOneMessage(i) ==
    /\ jobs[i].pc = "done"
    /\ jobs[i].terminal = 1
    /\ \/ jobs[i].report = "summary" /\ jobs[i].attempts = jobs[i].targets
       \/ jobs[i].report = "crash"

\* C20: every enqueued run ends in the end; a run that has ended has sent
\* exactly one terminal message, the summary after all its targets or the
\* crash notice, a run that has not ended has sent none, and an ended run
\* attempts no further target and sends nothing more.
C20_RunEndsWithOneMessage ==
    /\ \A i \in 1..MaxJobs :
          (i \in DOMAIN jobs) ~> (i \in DOMAIN jobs /\ EndedWithOneMessage(i))
    /\ [](\A i \in DOMAIN jobs :
             /\ jobs[i].pc = "done" => EndedWithOneMessage(i)
             /\ jobs[i].pc # "done" => jobs[i].terminal = 0 /\ jobs[i].report = "none")
    /\ [][\A i \in DOMAIN jobs : jobs[i].pc = "done" => jobs'[i] = jobs[i]]_vars

\* a run ended by the crash notice with a target left unattempted
C20_CrashLeftTargets ==
    \E i \in DOMAIN jobs :
        /\ jobs[i].pc = "done"
        /\ jobs[i].report = "crash"
        /\ jobs[i].terminal = 1
        /\ Len(jobs[i].attempts) < Len(jobs[i].targets)


\* C21: a step in which an enqueue failed (run_once for a warning or a
\* welcome, add_job for a broadcast) gives the administrator one failure
\* notice per failed enqueue and enqueues nothing in its place.
C21_EnqueueFailureNoticed ==
    /\ (last.handler \in {"message_handler", "welcome_message"}
        /\ last.enqueue_failures > 0)
       => /\ last.failure_notices = last.enqueue_failures
          /\ last.scheduled + last.enqueue_failures <= last.warned
    /\ (last.handler = "broadcast_confirm" /\ last.reply = "queue_failed")
       => ~last.enqueued


\* s is the beginning of t
IsPrefix(s, t) ==
    /\ Len(s) <= Len(t)
    /\ \A k \in DOMAIN s : s[k] = t[k]

\* C22: banned_words changes only in a reload by the administrator; a search
\* starts on the list bound to banned_words at that moment, keeps that list
\* through every reload, and the words it has tried are the beginning of that
\* one list.
C22_ReloadAdminOnlyAndAtomic ==
    /\ [](scan.active => IsPrefix(scan.seen, scan.list))
    /\ [][/\ banned_words' # banned_words
             => /\ last'.handler = "reload_banned_words"
                /\ last'.user = ADMIN_ID
          /\ (last'.handler = "reload_banned_words" /\ last'.user # ADMIN_ID)
             => banned_words' = banned_words
          /\ (~scan.active /\ scan'.active) => scan'.list = banned_words
          /\ (scan.active /\ scan'.active)
             => /\ scan'.list = scan.list
                /\ IsPrefix(scan.seen, scan'.seen)]_vars

\* a reload replaced the list while a search had tried a word, and the search
\* goes on with the list it started on
C22_ReloadDuringSearch ==
    /\ scan.active
    /\ Len(scan.seen) >= 1
    /\ scan.list # banned_words


\* C23: a group message of a non-administrator with a link entity and a
\* banned substring goes through the URL branch only: one pass, at most one
\* warning, and every log row the step appends has the reason "URL".
C23_LinkRuleWinsOverBannedWord ==
    (/\ last.handler = "message_handler"
     /\ ChatType(last.chat) # "private"
     /\ last.user # ADMIN_ID
     /\ last.msg.url
     /\ last.msg.text # NoText
     /\ \E i \in DOMAIN banned_words :
           Contains(Lower(banned_words[i]), Lower(last.msg.text)))
    => /\ last.paths = 1
       /\ last.warned <= 1
       /\ last.logged <= 1
       /\ \A k \in DOMAIN deleted_messages :
             k > Len(deleted_messages) - last.logged
             => deleted_messages[k].reason = "URL"


\* C24: a row enters bot_users only in a /start step of that user in the
\* private chat; a /start in a group leaves bot_users as it is.
C24_OptInOnlyInPrivateChat ==
    [][/\ \A r \in bot_users' :
             r \notin bot_users
             => /\ last'.handler = "start"
                /\ last'.user = r.user_id
                /\ ChatType(last'.chat) = "private"
       /\ (last'.handler = "start" /\ ChatType(last'.chat) # "private")
          => bot_users' = bot_users]_vars


\* C25: when the group list is shown no selected group is bound; the first
\* reply after the list is read as an index, never stored as the payload;
\* and selected_group is bound only by an index reply to the list shown, to
\* the row of that index.
C25_FirstReplyIsIndex ==
    /\ (last.handler = "broadcast_type" /\ last.reply = "group_list")
       => user_data[last.user].selected_group = <<>>
    /\ (last.handler = "broadcast_message" /\ last.asked # <<>> /\ ~last.raised)
       => /\ last.reply \in {"group_selected", "not_a_number", "invalid_number"}
          /\ user_data[last.user].broadcast_message = last.before.broadcast_message
    /\ (/\ last.handler # "idle"
        /\ last.handler # "run_broadcast_job"
        /\ user_data[last.user].selected_group # <<>>
        /\ user_data[last.user].selected_group # last.before.selected_group)
       => /\ last.handler = "broadcast_message"
          /\ IndexOf(last.msg) \in 1..Len(last.asked)
          /\ user_data[last.user].selected_group = last.asked[IndexOf(last.msg)]


\* what a job was given when it was enqueued
JobArgs(job) ==
    <<job.btype, job.msg_data, job.selected_group_id, job.admin_id>>

====
